---- MODULE Spec2Model ----
(***************************************************************************)
(* Model of the DTN trace-ingestion pipeline of the two scripts            *)
(*   scripts/dtn-network-visualizer.py      (class DTNNetworkVisualizer)   *)
(*   scripts/dtn-visualization-scripts.py   (class DTNVisualizationFramework)*)
(*                                                                         *)
(* Text is modelled as TLA+ strings and is split, stripped and converted   *)
(* character by character, as str.split, str.strip, int() and float() do.  *)
(* A Python float is modelled as an integer number of thousandths; an int  *)
(* is an integer.  The numbers of the model's trace lines have at most one  *)
(* fractional digit, so every product and quotient below is exact.        *)
(***************************************************************************)
EXTENDS Integers, Sequences, FiniteSets, TLC

(***************************************************************************)
(* Bounds of the model.                                                    *)
(***************************************************************************)
MaxLines == 3

MaxFlows == 1

MaxNodes == 2

DrawPeriod == 2

MaxEvents == 2

(***************************************************************************)
(* Text primitives.                                                        *)
(***************************************************************************)
CharAt(s, i) == SubSeq(s, i, i)

Digits == {"0", "1", "2", "3", "4", "5", "6", "7", "8", "9"}

DigitVal(c) ==
  CASE c = "0" -> 0 [] c = "1" -> 1 [] c = "2" -> 2 [] c = "3" -> 3
    [] c = "4" -> 4 [] c = "5" -> 5 [] c = "6" -> 6 [] c = "7" -> 7
    [] c = "8" -> 8 [] c = "9" -> 9

Whitespace == {" ", "\t"}

RECURSIVE LStrip(_)
LStrip(s) ==
  IF Len(s) > 0 /\ CharAt(s, 1) \in Whitespace
  THEN LStrip(SubSeq(s, 2, Len(s)))
  ELSE s

RECURSIVE RStrip(_)
RStrip(s) ==
  IF Len(s) > 0 /\ CharAt(s, Len(s)) \in Whitespace
  THEN RStrip(SubSeq(s, 1, Len(s) - 1))
  ELSE s

\* str.strip()
Strip(s) == RStrip(LStrip(s))

\* str.startswith(prefix)
StartsWith(s, prefix) ==
  Len(s) >= Len(prefix) /\ SubSeq(s, 1, Len(prefix)) = prefix

\* the test  sub in s
Contains(s, sub) ==
  \E i \in 1..(Len(s) - Len(sub) + 1) : SubSeq(s, i, i + Len(sub) - 1) = sub

\* the test  ',' in line
HasComma(s) == Contains(s, ",")

\* str.split(','): the fields between the commas, empty fields included
RECURSIVE SplitFrom(_, _, _, _)
SplitFrom(s, i, start, acc) ==
  IF i > Len(s)
  THEN Append(acc, SubSeq(s, start, Len(s)))
  ELSE IF CharAt(s, i) = ","
       THEN SplitFrom(s, i + 1, i + 1, Append(acc, SubSeq(s, start, i - 1)))
       ELSE SplitFrom(s, i + 1, start, acc)

Split(s) == SplitFrom(s, 1, 1, << >>)

AllDigits(s) == \A i \in 1..Len(s) : CharAt(s, i) \in Digits

RECURSIVE DigitsValue(_, _)
DigitsValue(s, acc) ==
  IF Len(s) = 0 THEN acc
  ELSE DigitsValue(SubSeq(s, 2, Len(s)), 10 * acc + DigitVal(CharAt(s, 1)))

\* the sign of a numeric literal and the text after it
SignOf(s) == IF Len(s) > 0 /\ CharAt(s, 1) = "-" THEN -1 ELSE 1

Unsigned(s) ==
  IF Len(s) > 0 /\ CharAt(s, 1) \in {"-", "+"} THEN SubSeq(s, 2, Len(s)) ELSE s

\* a conversion that raised ValueError
ValueError == [ok |-> FALSE, val |-> 0]

\* int(text): surrounding whitespace, an optional sign, one or more digits;
\* anything else (a decimal point, a letter, the empty string) raises
IntOf(sign, u) ==
  IF Len(u) > 0 /\ AllDigits(u)
  THEN [ok |-> TRUE, val |-> sign * DigitsValue(u, 0)]
  ELSE ValueError

IntOfStripped(s) == IntOf(SignOf(s), Unsigned(s))

ParseInt(text) == IntOfStripped(Strip(text))

\* position of the first "." of s, 0 when there is none
DotPos(s) ==
  IF Contains(s, ".")
  THEN CHOOSE i \in 1..Len(s) :
         CharAt(s, i) = "." /\ \A j \in 1..(i - 1) : CharAt(s, j) # "."
  ELSE 0

\* the fractional digits as thousandths
FracValue(f) ==
  DigitsValue(SubSeq(f \o "000", 1, 3), 0)

\* float(text), in thousandths: surrounding whitespace, an optional sign,
\* digits with an optional decimal point; anything else raises
\* ip, fp: the digits before and after the decimal point
FloatOf(sign, ip, fp) ==
  IF Len(ip) + Len(fp) > 0 /\ AllDigits(ip) /\ AllDigits(fp)
  THEN [ok |-> TRUE,
        val |-> sign * (1000 * DigitsValue(ip, 0) + FracValue(fp))]
  ELSE ValueError

FloatAt(sign, u, d) ==
  IF d = 0 THEN FloatOf(sign, u, "")
  ELSE FloatOf(sign, SubSeq(u, 1, d - 1), SubSeq(u, d + 1, Len(u)))

FloatOfUnsigned(sign, u) == FloatAt(sign, u, DotPos(u))

FloatOfStripped(s) == FloatOfUnsigned(SignOf(s), Unsigned(s))

ParseFloat(text) == FloatOfStripped(Strip(text))

(***************************************************************************)
(* Trace files.  A file is absent, or it is the list of its lines          *)
(* (content.split('\n')).  The visualizer reads the combined file          *)
(* dtn-optimized-performance.txt and the table message-flow-tracking.txt;  *)
(* the framework reads dtn-performance-stats.txt.                          *)
(***************************************************************************)
Absent == [exists |-> FALSE, lines |-> << >>]

File(ls) == [exists |-> TRUE, lines |-> ls]

\* all sequences over S of length at most n
SeqsUpTo(S, n) == UNION {[1..k -> S] : k \in 0..n}

\* lines of the combined file of the visualizer
PositionLines ==
  { "NODE_POSITIONS",
    "NodeID,Type,X,Y,Mobile",
    "5,1,100.0,200.0,extra",
    "7,4,250.0,0.0,0",
    "6,2,300.0,400.0",
    "1,2",
    "x,1,1.0,2.0,0",
    "TIME_SERIES_DATA",
    "30,5,1.0,2.0,40" }

\* rows of the message-flow table, as pandas.read_csv(...).to_dict('records')
\* returns them
FlowRows ==
  { [Time |-> 0, BundleID |-> 0, FromNode |-> 5, ToNode |-> 7,
     Action |-> "FORWARDED", NodeType |-> 1] }

(***************************************************************************)
(* DTNNetworkVisualizer.load_node_positions                                *)
(***************************************************************************)
\* the field count the position loop asks of a row
MinNodeFields == 5

\* dict assignment  d[k] = v
DictSet(d, k, v) == [x \in (DOMAIN d) \cup {k} |-> IF x = k THEN v ELSE d[x]]

EmptyDict == [x \in {} |-> 0]

\* the body of the loop for one data row of the position section: the
\* conversions in source order, then the store; ok = FALSE when one raised
NodeStore(nodes, node_id, node_type, x, y) ==
  IF node_id.ok /\ node_type.ok /\ x.ok /\ y.ok
  THEN [ok |-> TRUE,
        nodes |-> DictSet(nodes, node_id.val,
                          [x |-> x.val, y |-> y.val, type |-> node_type.val,
                           is_mobile |-> node_type.val < 4])]
  ELSE [ok |-> FALSE, nodes |-> nodes]

\* NodeParts without the field-count test: indexing a short row raises
NodePartsUnchecked(nodes, parts) ==
  IF Len(parts) >= MinNodeFields
  THEN NodeStore(nodes, ParseInt(parts[1]), ParseInt(parts[2]),
                 ParseFloat(parts[3]), ParseFloat(parts[4]))
  ELSE [ok |-> FALSE, nodes |-> nodes]

NodeParts(nodes, parts) ==
  IF Len(parts) >= MinNodeFields
  THEN NodeStore(nodes, ParseInt(parts[1]), ParseInt(parts[2]),
                 ParseFloat(parts[3]), ParseFloat(parts[4]))
  ELSE [ok |-> TRUE, nodes |-> nodes]

NodeRow(nodes, line) == NodeParts(nodes, Split(Strip(line)))

\* the for loop over the lines, from line i on; an exception leaves the loop
\* and is swallowed by the except clause of load_node_positions, the nodes
\* stored so far stay in self.node_positions
RECURSIVE NodeLoop(_, _, _, _)
NodeAfterRow(lines, i, position_section, r) ==
  IF r.ok THEN NodeLoop(lines, i + 1, position_section, r.nodes) ELSE r.nodes

NodeLoop(lines, i, position_section, nodes) ==
  IF i > Len(lines) THEN nodes
  ELSE IF Strip(lines[i]) = "NODE_POSITIONS"
       THEN NodeLoop(lines, i + 1, TRUE, nodes)
       ELSE IF position_section /\ HasComma(lines[i])
               /\ ~StartsWith(lines[i], "NodeID")
            THEN NodeAfterRow(lines, i, position_section,
                              NodeRow(nodes, lines[i]))
            ELSE NodeLoop(lines, i + 1, position_section, nodes)

load_node_positions(file, nodes) ==
  IF file.exists THEN NodeLoop(file.lines, 1, FALSE, nodes) ELSE nodes

(***************************************************************************)
(* DTNNetworkVisualizer.load_message_flows                                 *)
(***************************************************************************)
load_message_flows(file, flows) ==
  IF file.exists THEN file.lines ELSE flows

(***************************************************************************)
(* DTNNetworkVisualizer.load_performance_metrics                           *)
(***************************************************************************)
\* SummaryStore that keeps the value a key already has
SummaryStoreFirst(perf, key, v) ==
  IF v.ok
  THEN [ok |-> TRUE,
        perf |-> IF key \in DOMAIN perf THEN perf ELSE DictSet(perf, key, v.val)]
  ELSE [ok |-> FALSE, perf |-> perf]

\* one summary line: the value is the text after the first comma
\* (line.split(',')[1]); IndexError when there is no comma
SummaryStore(perf, key, v) ==
  IF v.ok THEN [ok |-> TRUE, perf |-> DictSet(perf, key, v.val)]
  ELSE [ok |-> FALSE, perf |-> perf]

\* float(line.split(',')[1]) and int(line.split(',')[1])
SummaryFloat(parts) == IF Len(parts) < 2 THEN ValueError ELSE ParseFloat(parts[2])

SummaryInt(parts) == IF Len(parts) < 2 THEN ValueError ELSE ParseInt(parts[2])

SummaryLine(perf, line) ==
  IF Contains(line, "AverageDelay")
  THEN SummaryStore(perf, "avg_delay", SummaryFloat(Split(line)))
  ELSE IF Contains(line, "AverageThroughput")
       THEN SummaryStore(perf, "avg_throughput", SummaryFloat(Split(line)))
       ELSE IF Contains(line, "TotalFlows")
            THEN SummaryStore(perf, "total_flows", SummaryInt(Split(line)))
            ELSE [ok |-> TRUE, perf |-> perf]

RECURSIVE SummaryLoop(_, _, _)
SummaryAfterLine(lines, i, r) ==
  IF r.ok THEN SummaryLoop(lines, i + 1, r.perf) ELSE r.perf

SummaryLoop(lines, i, perf) ==
  IF i > Len(lines) THEN perf
  ELSE SummaryAfterLine(lines, i, SummaryLine(perf, lines[i]))

load_performance_metrics(file, perf) ==
  IF file.exists THEN SummaryLoop(file.lines, 1, perf) ELSE perf

(***************************************************************************)
(* DTNNetworkVisualizer.generate_sample_data                               *)
(***************************************************************************)
\* the sizes of the sample dataset
SampleNodes == 120

SampleFlows == 50

\* values np.random.uniform(0, 1500) can return, in thousandths
UniformValues == {0, 750500, 1499999}

\* the streams of draws the generator is run with: stream[d % DrawPeriod] is
\* draw number d
DrawStreams == [0..(DrawPeriod - 1) -> UniformValues]

\* the number of mobile nodes among the nodes 0 .. i - 1
MobileBefore(i) == (i \div 8) * 4 + (IF i % 8 < 4 THEN i % 8 ELSE 4)

\* the entry the first loop stores for node i; a mobile node takes the next
\* two draws, x first
SampleNode(i, stream) ==
  IF i % 8 < 4
  THEN [x |-> stream[(2 * MobileBefore(i)) % DrawPeriod],
        y |-> stream[(2 * MobileBefore(i) + 1) % DrawPeriod],
        type |-> i % 8, is_mobile |-> TRUE]
  ELSE [x |-> (i \div 8) * 250 * 1000, y |-> (i % 8) * 200 * 1000,
        type |-> i % 8, is_mobile |-> FALSE]

\* SampleFlow with the destination equal to the source
SampleFlowToSelf(i) ==
  [Time |-> i * 2000, BundleID |-> i, FromNode |-> i % SampleNodes,
   ToNode |-> i % SampleNodes, Action |-> "FORWARDED",
   NodeType |-> (i % SampleNodes) % 8]

\* the event the second loop appends for i; Time is the column 'Time(s)'
SampleFlow(i) ==
  [Time |-> i * 2000, BundleID |-> i, FromNode |-> i % SampleNodes,
   ToNode |-> (i + 60) % SampleNodes, Action |-> "FORWARDED",
   NodeType |-> (i % SampleNodes) % 8]

\* the nodes after the first loop: the entries 0 .. 119 are set, the other
\* entries of the dict stay
SampleNodePositions(nodes, stream) ==
  [n \in (DOMAIN nodes) \cup (0..(SampleNodes - 1)) |->
     IF n \in 0..(SampleNodes - 1) THEN SampleNode(n, stream) ELSE nodes[n]]

\* the flows after the second loop: 50 events appended to the list
SampleMessageFlows(flows) ==
  flows \o [k \in 1..SampleFlows |-> SampleFlow(k - 1)]

\* the dict assigned to self.performance_data
SamplePerformanceData ==
  [k \in {"avg_delay", "avg_throughput", "total_flows"} |->
     CASE k = "avg_delay" -> 45200
       [] k = "avg_throughput" -> 125800
       [] k = "total_flows" -> 50]

(***************************************************************************)
(* DTNVisualizationFramework: the protocol metrics file                    *)
(***************************************************************************)
\* lines of dtn-performance-stats.txt
StatsLines ==
  { "DTN_METRICS",
    "Protocol,Delay,Throughput,DeliveryRatio,EnergyEfficiency",
    "OurDTN,25.0,14.0,90.0,0.9",
    "OurDTN,10.0,5.0,0.0,0.5",
    "Epidemic,65.0,6.0,200.0,0.6",
    "MyProto,40.0,8.0,60.0,0.5",
    "ProtocolX,40.0,8.0,60.0,0.5",
    "PROPHET,bad,12.0,75.0,0.8",
    "NODE_PERFORMANCE",
    "TIME_SERIES_DATA",
    "Time,Delay,Throughput,PacketLoss,ActiveNodes",
    "30.0,35.0,8.0,20.0,40.7" }

\* self.protocols
protocols == <<"OurDTN", "Epidemic", "PROPHET", "SprayAndWait">>

\* the field count the metrics and the time-series loops ask of a row
MinMetricFields == 5

\* ProtocolRecord with the throughput stored unscaled
ProtocolRecordUnscaled(delay, throughput, delivery_ratio, energy_efficiency) ==
  [delay |-> delay,
   bandwidth |-> throughput,
   response |-> (delay * 8) \div 10,
   data_loss |-> 100000 - delivery_ratio,
   energy |-> 1000 - energy_efficiency,
   scalability |-> delivery_ratio * 100]

\* the record stored for one DTN_METRICS row (floats in thousandths)
ProtocolRecord(delay, throughput, delivery_ratio, energy_efficiency) ==
  [delay |-> delay,
   bandwidth |-> throughput * 10,
   response |-> (delay * 8) \div 10,
   data_loss |-> 100000 - delivery_ratio,
   energy |-> 1000 - energy_efficiency,
   scalability |-> delivery_ratio * 100]

\* the body of the first loop for one data row of the metrics section
MetricsStore(perf, protocol, delay, throughput, delivery_ratio, energy_efficiency) ==
  IF delay.ok /\ throughput.ok /\ delivery_ratio.ok /\ energy_efficiency.ok
  THEN [ok |-> TRUE,
        perf |-> DictSet(perf, protocol,
                   ProtocolRecord(delay.val, throughput.val,
                                  delivery_ratio.val, energy_efficiency.val))]
  ELSE [ok |-> FALSE, perf |-> perf]

MetricsParts(perf, parts) ==
  IF Len(parts) >= MinMetricFields
  THEN MetricsStore(perf, parts[1], ParseFloat(parts[2]), ParseFloat(parts[3]),
                    ParseFloat(parts[4]), ParseFloat(parts[5]))
  ELSE [ok |-> TRUE, perf |-> perf]

MetricsRow(perf, line) == MetricsParts(perf, Split(Strip(line)))

\* the first loop of parse_simulation_data, from line i on; ok = FALSE when a
\* conversion raised, which leaves parse_simulation_data
RECURSIVE MetricsLoop(_, _, _, _)
MetricsAfterRow(lines, i, dtn_section, r) ==
  IF r.ok THEN MetricsLoop(lines, i + 1, dtn_section, r.perf) ELSE r

MetricsLoop(lines, i, dtn_section, perf) ==
  IF i > Len(lines) THEN [ok |-> TRUE, perf |-> perf]
  ELSE IF Strip(lines[i]) = "DTN_METRICS"
       THEN MetricsLoop(lines, i + 1, TRUE, perf)
       ELSE IF StartsWith(Strip(lines[i]), "NODE_PERFORMANCE")
            THEN MetricsLoop(lines, i + 1, FALSE, perf)
            ELSE IF dtn_section /\ HasComma(lines[i])
                    /\ ~StartsWith(lines[i], "Protocol")
                 THEN MetricsAfterRow(lines, i, dtn_section,
                                      MetricsRow(perf, lines[i]))
                 ELSE MetricsLoop(lines, i + 1, dtn_section, perf)

\* int(v) of a float v: truncation toward zero, kept in thousandths
IntOfFloat(v) == IF v >= 0 THEN (v \div 1000) * 1000 ELSE -(((-v) \div 1000) * 1000)

\* the body of the second loop for one data row of the time-series section
SeriesStore(series, time, delay, throughput, packet_loss, active_nodes) ==
  IF time.ok /\ delay.ok /\ throughput.ok /\ packet_loss.ok /\ active_nodes.ok
  THEN [ok |-> TRUE,
        series |-> Append(series,
          [time |-> time.val, delay |-> delay.val,
           throughput |-> throughput.val, packet_loss |-> packet_loss.val,
           active_nodes |-> IntOfFloat(active_nodes.val)])]
  ELSE [ok |-> FALSE, series |-> series]

SeriesParts(series, parts) ==
  IF Len(parts) >= MinMetricFields
  THEN SeriesStore(series, ParseFloat(parts[1]), ParseFloat(parts[2]),
                   ParseFloat(parts[3]), ParseFloat(parts[4]),
                   ParseFloat(parts[5]))
  ELSE [ok |-> TRUE, series |-> series]

SeriesRow(series, line) == SeriesParts(series, Split(Strip(line)))

RECURSIVE SeriesLoop(_, _, _, _)
SeriesAfterRow(lines, i, time_series_section, r) ==
  IF r.ok THEN SeriesLoop(lines, i + 1, time_series_section, r.series) ELSE r

SeriesLoop(lines, i, time_series_section, series) ==
  IF i > Len(lines) THEN [ok |-> TRUE, series |-> series]
  ELSE IF Strip(lines[i]) = "TIME_SERIES_DATA"
       THEN SeriesLoop(lines, i + 1, TRUE, series)
       ELSE IF time_series_section /\ HasComma(lines[i])
               /\ ~StartsWith(lines[i], "Time")
            THEN SeriesAfterRow(lines, i, time_series_section,
                                SeriesRow(series, lines[i]))
            ELSE SeriesLoop(lines, i + 1, time_series_section, series)

\* the samples of use_default_data, t = 0, 30, .., 570:
\* <<t, 35 + 15 sin(0.01 t), 8 + 4 cos(0.008 t), 20 + 10 sin(0.012 t),
\*   40 + 10 cos(0.005 t)>>, each rounded to the thousandth
DefaultSamples ==
  <<
    <<0, 35000, 12000, 20000, 50000>>, <<30000, 39433, 11885, 23523, 49888>>,
    <<60000, 43470, 11548, 26594, 49553>>, <<90000, 46750, 11007, 28820, 49004>>,
    <<120000, 48981, 10294, 29915, 48253>>, <<150000, 49962, 9449, 29738, 47317>>,
    <<180000, 49608, 8522, 28314, 46216>>, <<210000, 47948, 7564, 25823, 44976>>,
    <<240000, 45132, 6631, 22586, 43624>>, <<270000, 41411, 5777, 19018, 42190>>,
    <<300000, 37117, 5050, 15575, 40707>>, <<330000, 32634, 4493, 12699, 39209>>,
    <<360000, 28362, 4136, 10760, 37728>>, <<390000, 24684, 4001, 10005, 36298>>,
    <<420000, 21926, 4095, 10532, 34952>>, <<450000, 20337, 4413, 12272, 33718>>,
    <<480000, 20058, 4937, 15004, 32626>>, <<510000, 21113, 5636, 18375, 31699>>,
    <<540000, 23409, 6470, 21955, 30959>>, <<570000, 26740, 7393, 25285, 30422>>
  >>

DefaultRecord(delay, bandwidth, response, data_loss, energy, scalability) ==
  [delay |-> delay * 1000, bandwidth |-> bandwidth * 1000,
   response |-> response * 1000, data_loss |-> data_loss * 1000,
   energy |-> energy, scalability |-> scalability * 1000]

\* use_default_data: both collections are replaced
use_default_data ==
  [performance_data |->
     [p \in {"OurDTN", "Epidemic", "PROPHET", "SprayAndWait"} |->
        CASE p = "OurDTN" -> DefaultRecord(25, 14, 20, 15, 100, 850)
          [] p = "Epidemic" -> DefaultRecord(65, 6, 52, 40, 400, 600)
          [] p = "PROPHET" -> DefaultRecord(42, 12, 34, 25, 200, 750)
          [] p = "SprayAndWait" -> DefaultRecord(51, 10, 41, 30, 250, 700)],
   time_series_data |->
     [k \in 1..Len(DefaultSamples) |->
        [time |-> DefaultSamples[k][1], delay |-> DefaultSamples[k][2],
         throughput |-> DefaultSamples[k][3],
         packet_loss |-> DefaultSamples[k][4],
         active_nodes |-> DefaultSamples[k][5]]]]

\* parse_simulation_data(content) on the object state (perf, series):
\* raised = TRUE when a conversion raised out of it
\* m, t: the outcomes of the first and of the second loop
ParseOutcome(m, t, series) ==
  IF ~m.ok
  THEN [raised |-> TRUE, performance_data |-> m.perf,
        time_series_data |-> series]
  ELSE IF ~t.ok
       THEN [raised |-> TRUE, performance_data |-> m.perf,
             time_series_data |-> t.series]
       ELSE IF DOMAIN m.perf # {}
            THEN [raised |-> FALSE, performance_data |-> m.perf,
                  time_series_data |-> t.series]
            ELSE [raised |-> FALSE,
                  performance_data |-> use_default_data.performance_data,
                  time_series_data |-> use_default_data.time_series_data]

parse_simulation_data(lines, perf, series) ==
  ParseOutcome(MetricsLoop(lines, 1, FALSE, perf),
               SeriesLoop(lines, 1, FALSE, << >>), series)

\* DTNVisualizationFramework.load_simulation_data: the file is parsed; a
\* missing file and any exception of the parse end in use_default_data
LoadOutcome(r) ==
  IF r.raised THEN use_default_data
  ELSE [performance_data |-> r.performance_data,
        time_series_data |-> r.time_series_data]

framework_load(file, perf, series) ==
  IF file.exists
  THEN LoadOutcome(parse_simulation_data(file.lines, perf, series))
  ELSE use_default_data

(***************************************************************************)
(* DTNVisualizationFramework.create_performance_radar_chart                *)
(***************************************************************************)
Min(a, b) == IF a <= b THEN a ELSE b

\* ScalabilityScore without the upper clamp
ScalabilityScoreUnclamped(scalability) == scalability \div 100

\* min(100, data['scalability'] / 100)
ScalabilityScore(scalability) == Min(100000, scalability \div 100)

\* RadarValues with every score kept inside 0 .. 100
RadarValuesClamped(data) ==
  [delay |-> Min(100000, 100000 - data.delay \div 20),
   bandwidth |-> Min(100000, data.bandwidth),
   response |-> Min(100000, 100000 - data.response \div 5),
   data_loss |-> IF data.data_loss * 5 > 100000 THEN 0
                 ELSE Min(100000, 100000 - data.data_loss * 5),
   energy |-> IF data.energy * 1000 > 100000 THEN 0
              ELSE Min(100000, 100000 - data.energy * 1000),
   scalability |-> ScalabilityScore(data.scalability)]

\* the list  values  of one protocol
RadarValues(data) ==
  [delay |-> 100000 - data.delay \div 20,
   bandwidth |-> data.bandwidth,
   response |-> 100000 - data.response \div 5,
   data_loss |-> 100000 - data.data_loss * 5,
   energy |-> 100000 - data.energy * 1000,
   scalability |-> ScalabilityScore(data.scalability)]

\* the loop over self.protocols from index i on: one trace per protocol;
\* self.performance_data[protocol] raises KeyError for a name that is not a
\* key, which leaves the method with the traces added so far
RECURSIVE RadarLoop(_, _, _)
RadarLoop(perf, i, traces) ==
  IF i > Len(protocols) THEN [raised |-> FALSE, traces |-> traces]
  ELSE IF protocols[i] \in DOMAIN perf
       THEN RadarLoop(perf, i + 1,
              Append(traces, [name |-> protocols[i],
                              r |-> RadarValues(perf[protocols[i]])]))
       ELSE [raised |-> TRUE, traces |-> traces]

(***************************************************************************)
(* DTNNetworkVisualizer.create_performance_dashboard: the coverage heatmap *)
(***************************************************************************)
\* np.linspace(0, ArenaSize, GridSize): point i is ArenaSize * i / (GridSize - 1)
ArenaSize == 1500

GridSize == 20

\* the communication range of the heatmap
CommRange == 250

\* a position in whole metres; the positions of the model's lines are whole
Metres(v) == v \div 1000

\* WithinRange that counts a node exactly range away
WithinRangeInclusive(i, j, node_data, range) ==
  LET dx == ArenaSize * i - (GridSize - 1) * Metres(node_data.x)
      dy == ArenaSize * j - (GridSize - 1) * Metres(node_data.y)
  IN  dx * dx + dy * dy <= (GridSize - 1) * (GridSize - 1) * range * range

\* WithinRange with the comparison turned round
WithinRangeInverted(i, j, node_data, range) ==
  LET dx == ArenaSize * i - (GridSize - 1) * Metres(node_data.x)
      dy == ArenaSize * j - (GridSize - 1) * Metres(node_data.y)
  IN  dx * dx + dy * dy > (GridSize - 1) * (GridSize - 1) * range * range

\* distance < range for grid point (i, j) and a node, both sides squared and
\* scaled by (GridSize - 1)^2 to stay in the integers
WithinRange(i, j, node_data, range) ==
  LET dx == ArenaSize * i - (GridSize - 1) * Metres(node_data.x)
      dy == ArenaSize * j - (GridSize - 1) * Metres(node_data.y)
  IN  dx * dx + dy * dy < (GridSize - 1) * (GridSize - 1) * range * range

\* the value of coverage_matrix[j, i]
Coverage(nodes, i, j, range) ==
  Cardinality({n \in DOMAIN nodes : WithinRange(i, j, nodes[n], range)})

CoverageMatrix(nodes, range) ==
  [c \in (0..(GridSize - 1)) \X (0..(GridSize - 1)) |->
     Coverage(nodes, c[2], c[1], range)]

(***************************************************************************)
(* DTNNetworkVisualizer: the stages that look up nodes and flows           *)
(***************************************************************************)
\* self.node_types: the name of each of the 8 node types
node_types ==
  [t \in 0..7 |->
     CASE t = 0 -> "Emergency" [] t = 1 -> "Civilian" [] t = 2 -> "Vehicle"
       [] t = 3 -> "Drone" [] t = 4 -> "Tower" [] t = 5 -> "Gateway"
       [] t = 6 -> "Sensor" [] t = 7 -> "Relay"]

\* self.node_types[data['type']] succeeds for every node; it raises KeyError
\* for a node whose type is not a key of the table
TypesKnown(nodes) == \A n \in DOMAIN nodes : nodes[n].type \in DOMAIN node_types

\* the number of flows create_message_flow_animation looks at
ShownFlows == 20

\* FlowArrows that draws the flows one of whose ends is a known node
FlowArrowsEitherEnd(flows, nodes) ==
  SelectSeq(SubSeq(flows, 1, Min(ShownFlows, Len(flows))),
            LAMBDA flow : flow.FromNode \in DOMAIN nodes
                          \/ flow.ToNode \in DOMAIN nodes)

\* the flows among the first ShownFlows that get an arrow: both ends are
\* ids of node_positions
FlowArrows(flows, nodes) ==
  SelectSeq(SubSeq(flows, 1, Min(ShownFlows, Len(flows))),
            LAMBDA flow : flow.FromNode \in DOMAIN nodes
                          /\ flow.ToNode \in DOMAIN nodes)

\* dict.get(k, 0) + 1 stored under k
DictCount(d, k) == DictSet(d, k, (IF k \in DOMAIN d THEN d[k] ELSE 0) + 1)

\* the messages-by-node-type tally of create_node_mobility_analysis from
\* flow i on: a flow whose FromNode is no id of node_positions is passed
\* over, and so is one whose lookup raises (bare except: continue)
RECURSIVE MessageCountLoop(_, _, _, _)
MessageCountLoop(flows, i, nodes, counts) ==
  IF i > Len(flows) THEN counts
  ELSE IF flows[i].FromNode \in DOMAIN nodes
          /\ nodes[flows[i].FromNode].type \in DOMAIN node_types
       THEN MessageCountLoop(flows, i + 1, nodes,
              DictCount(counts, node_types[nodes[flows[i].FromNode].type]))
       ELSE MessageCountLoop(flows, i + 1, nodes, counts)

\* NodeTypeCounts that leaves the static nodes out
NodeTypeCountsMobileOnly(nodes) ==
  [name \in {node_types[nodes[n].type] : n \in {m \in DOMAIN nodes : nodes[m].is_mobile}} |->
     Cardinality({n \in DOMAIN nodes :
                    nodes[n].is_mobile /\ node_types[nodes[n].type] = name})]

\* node_type_counts of generate_comprehensive_report, for nodes of known types
NodeTypeCounts(nodes) ==
  [name \in {node_types[nodes[n].type] : n \in DOMAIN nodes} |->
     Cardinality({n \in DOMAIN nodes : node_types[nodes[n].type] = name})]

\* the tally  actions  of generate_comprehensive_report from flow i on
RECURSIVE ActionLoop(_, _, _)
ActionLoop(flows, i, actions) ==
  IF i > Len(flows) THEN actions
  ELSE ActionLoop(flows, i + 1, DictCount(actions, flows[i].Action))

\* self.performance_data.get(key, 'N/A')
SummaryGet(perf, key) == IF key \in DOMAIN perf THEN perf[key] ELSE "N/A"

\* the figures of the text report
ReportOf(nodes, flows, perf) ==
  [total_nodes |-> Cardinality(DOMAIN nodes),
   mobile_nodes |-> Cardinality({n \in DOMAIN nodes : nodes[n].is_mobile}),
   static_nodes |-> Cardinality({n \in DOMAIN nodes : ~nodes[n].is_mobile}),
   node_type_counts |-> NodeTypeCounts(nodes),
   avg_delay |-> SummaryGet(perf, "avg_delay"),
   avg_throughput |-> SummaryGet(perf, "avg_throughput"),
   total_flows |-> SummaryGet(perf, "total_flows"),
   total_events |-> Len(flows),
   actions |-> ActionLoop(flows, 1, EmptyDict)]

(***************************************************************************)
(* State.  One behaviour is one run of one of the two scripts.             *)
(***************************************************************************)
VARIABLES
  script,               \* "visualizer" or "framework": the script that runs
  perf_file,            \* dtn-optimized-performance.txt (after the cp)
  flow_file,            \* message-flow-tracking.txt (after the cp)
  stats_file,           \* dtn-performance-stats.txt
  pc,                   \* position of the run
  node_positions,       \* DTNNetworkVisualizer.node_positions
  message_flows,        \* DTNNetworkVisualizer.message_flows
  summary_data,         \* DTNNetworkVisualizer.performance_data
  flow_arrows,          \* the flows create_message_flow_animation drew
  coverage_matrix,      \* the heatmap of create_performance_dashboard
  node_message_count,   \* the tally of create_node_mobility_analysis
  report,               \* the figures of generate_comprehensive_report
  performance_data,     \* DTNVisualizationFramework.performance_data
  time_series_data,     \* DTNVisualizationFramework.time_series_data
  radar_traces,         \* the traces create_performance_radar_chart added
  raised                \* the exception that reached the caller, or "none"

vars == <<script, perf_file, flow_file, stats_file, pc, node_positions,
          message_flows, summary_data, flow_arrows, coverage_matrix,
          node_message_count, report, performance_data, time_series_data,
          radar_traces, raised>>

\* the attributes as __init__ sets them
Constructed ==
  /\ pc = "init"
  /\ node_positions = EmptyDict
  /\ message_flows = << >>
  /\ summary_data = EmptyDict
  /\ flow_arrows = << >>
  /\ coverage_matrix = << >>
  /\ node_message_count = EmptyDict
  /\ report = EmptyDict
  /\ performance_data = EmptyDict
  /\ time_series_data = << >>
  /\ radar_traces = << >>
  /\ raised = "none"

Files(S, n) == {Absent} \cup {File(ls) : ls \in SeqsUpTo(S, n)}

\* the state after __init__ has set the attributes and before it calls
\* load_simulation_data
Init ==
  /\ script \in {"visualizer", "framework"}
  /\ IF script = "visualizer"
     THEN /\ perf_file \in Files(PositionLines, MaxLines)
          /\ flow_file \in Files(FlowRows, MaxFlows)
          /\ stats_file = Absent
     ELSE /\ perf_file = Absent
          /\ flow_file = Absent
          /\ stats_file \in Files(StatsLines, MaxLines)
  /\ Constructed

\* DTNNetworkVisualizer.load_simulation_data.  Each of the three loaders
\* swallows its own exceptions, so nothing reaches the except clause of
\* this method and generate_sample_data is not called from it.
visualizer_load_simulation_data ==
  /\ script = "visualizer"
  /\ pc = "init"
  /\ node_positions' = load_node_positions(perf_file, node_positions)
  /\ message_flows' = load_message_flows(flow_file, message_flows)
  /\ summary_data' = load_performance_metrics(perf_file, summary_data)
  /\ pc' = "loaded"
  /\ UNCHANGED <<script, perf_file, flow_file, stats_file, flow_arrows,
                 coverage_matrix, node_message_count, report,
                 performance_data, time_series_data, radar_traces, raised>>

\* DTNNetworkVisualizer.generate_sample_data, called on the loaded object
generate_sample_data ==
  /\ script = "visualizer"
  /\ pc = "loaded"
  /\ \E stream \in DrawStreams :
       node_positions' = SampleNodePositions(node_positions, stream)
  /\ message_flows' = SampleMessageFlows(message_flows)
  /\ summary_data' = SamplePerformanceData
  /\ pc' = "generated"
  /\ UNCHANGED <<script, perf_file, flow_file, stats_file, flow_arrows,
                 coverage_matrix, node_message_count, report,
                 performance_data, time_series_data, radar_traces, raised>>

\* DTNNetworkVisualizer.create_network_topology_visualization: the first
\* stage of generate_all_visualizations; it reads the nodes of the types
\* 0 .. 7 and changes nothing
create_network_topology_visualization ==
  /\ script = "visualizer"
  /\ pc = "loaded"
  /\ pc' = "topology"
  /\ UNCHANGED <<script, perf_file, flow_file, stats_file, node_positions,
                 message_flows, summary_data, flow_arrows, coverage_matrix,
                 node_message_count, report, performance_data,
                 time_series_data, radar_traces, raised>>

\* DTNNetworkVisualizer.create_message_flow_animation: the type of every
\* node is looked up, then the arrows are drawn; a KeyError ends the run
create_message_flow_animation ==
  /\ script = "visualizer"
  /\ pc = "topology"
  /\ IF TypesKnown(node_positions)
     THEN /\ flow_arrows' = FlowArrows(message_flows, node_positions)
          /\ pc' = "animation"
          /\ raised' = raised
     ELSE /\ flow_arrows' = flow_arrows
          /\ pc' = "crashed"
          /\ raised' = "KeyError"
  /\ UNCHANGED <<script, perf_file, flow_file, stats_file, node_positions,
                 message_flows, summary_data, coverage_matrix,
                 node_message_count, report, performance_data,
                 time_series_data, radar_traces>>

\* DTNNetworkVisualizer.create_performance_dashboard: the type of every node
\* is looked up for the pie chart, then the heatmap is computed
create_performance_dashboard ==
  /\ script = "visualizer"
  /\ pc = "animation"
  /\ IF TypesKnown(node_positions)
     THEN /\ coverage_matrix' = CoverageMatrix(node_positions, CommRange)
          /\ pc' = "dashboard"
          /\ raised' = raised
     ELSE /\ coverage_matrix' = coverage_matrix
          /\ pc' = "crashed"
          /\ raised' = "KeyError"
  /\ UNCHANGED <<script, perf_file, flow_file, stats_file, node_positions,
                 message_flows, summary_data, flow_arrows,
                 node_message_count, report, performance_data,
                 time_series_data, radar_traces>>

\* DTNNetworkVisualizer.create_node_mobility_analysis: the type of every
\* node is looked up, then the messages are tallied by node type
create_node_mobility_analysis ==
  /\ script = "visualizer"
  /\ pc = "dashboard"
  /\ IF TypesKnown(node_positions)
     THEN /\ node_message_count' =
               MessageCountLoop(message_flows, 1, node_positions, EmptyDict)
          /\ pc' = "mobility"
          /\ raised' = raised
     ELSE /\ node_message_count' = node_message_count
          /\ pc' = "crashed"
          /\ raised' = "KeyError"
  /\ UNCHANGED <<script, perf_file, flow_file, stats_file, node_positions,
                 message_flows, summary_data, flow_arrows, coverage_matrix,
                 report, performance_data, time_series_data, radar_traces>>

\* DTNNetworkVisualizer.generate_comprehensive_report, the last stage
generate_comprehensive_report ==
  /\ script = "visualizer"
  /\ pc = "mobility"
  /\ IF TypesKnown(node_positions)
     THEN /\ report' = ReportOf(node_positions, message_flows, summary_data)
          /\ pc' = "report"
          /\ raised' = raised
     ELSE /\ report' = report
          /\ pc' = "crashed"
          /\ raised' = "KeyError"
  /\ UNCHANGED <<script, perf_file, flow_file, stats_file, node_positions,
                 message_flows, summary_data, flow_arrows, coverage_matrix,
                 node_message_count, performance_data, time_series_data,
                 radar_traces>>

\* DTNVisualizationFramework.load_simulation_data
framework_load_simulation_data ==
  /\ script = "framework"
  /\ pc = "init"
  /\ performance_data' =
       framework_load(stats_file, performance_data, time_series_data).performance_data
  /\ time_series_data' =
       framework_load(stats_file, performance_data, time_series_data).time_series_data
  /\ pc' = "loaded"
  /\ UNCHANGED <<script, perf_file, flow_file, stats_file, node_positions,
                 message_flows, summary_data, flow_arrows, coverage_matrix,
                 node_message_count, report, radar_traces, raised>>

\* DTNVisualizationFramework.create_performance_radar_chart
create_performance_radar_chart ==
  /\ script = "framework"
  /\ pc = "loaded"
  /\ radar_traces' = RadarLoop(performance_data, 1, << >>).traces
  /\ raised' = IF RadarLoop(performance_data, 1, << >>).raised
               THEN "KeyError" ELSE "none"
  /\ pc' = "radar"
  /\ UNCHANGED <<script, perf_file, flow_file, stats_file, node_positions,
                 message_flows, summary_data, flow_arrows, coverage_matrix,
                 node_message_count, report, performance_data,
                 time_series_data>>

Next ==
  \/ visualizer_load_simulation_data
  \/ framework_load_simulation_data
  \/ create_performance_radar_chart

Spec == Init /\ [][Next]_vars

(***************************************************************************)
(* The visualizer on position files of up to MaxNodes nodes placed on the  *)
(* points of CoveragePoints, for the coverage heatmap.                     *)
(***************************************************************************)
\* coordinates, in metres, of the nodes of these files
CoveragePoints == {0, 250, 800}

\* the position row of node node_id at (x, y)
PositionRow(node_id, x, y) ==
  ToString(node_id) \o "," \o ToString(node_id % 8) \o ","
    \o ToString(x) \o ".0," \o ToString(y) \o ".0,0"

\* a NODE_POSITIONS section with one row per entry of places, ids 1, 2, ..
PositionFile(places) ==
  File(<<"NODE_POSITIONS">>
         \o [k \in 1..Len(places) |-> PositionRow(k, places[k][1], places[k][2])])

InitCoverage ==
  /\ script = "visualizer"
  /\ perf_file \in {PositionFile(places) :
                     places \in SeqsUpTo(CoveragePoints \X CoveragePoints, MaxNodes)}
  /\ flow_file = Absent
  /\ stats_file = Absent
  /\ Constructed

NextCoverage ==
  \/ visualizer_load_simulation_data
  \/ create_network_topology_visualization
  \/ create_message_flow_animation
  \/ create_performance_dashboard

SpecCoverage == InitCoverage /\ [][NextCoverage]_vars

(***************************************************************************)
(* The visualizer on combined files that carry the summary lines.          *)
(***************************************************************************)
SummaryLines ==
  { "AverageDelay,45.2",
    "AverageDelay,30.5",
    "AverageThroughput,125.8",
    "AverageThroughput,99.0",
    "TotalFlows,50",
    "TotalFlows,7",
    "NODE_POSITIONS",
    "5,1,100.0,200.0,extra" }

InitSummary ==
  /\ script = "visualizer"
  /\ perf_file \in Files(SummaryLines, MaxLines)
  /\ flow_file = Absent
  /\ stats_file = Absent
  /\ Constructed

NextSummary == visualizer_load_simulation_data

SpecSummary == InitSummary /\ [][NextSummary]_vars

(***************************************************************************)
(* The visualizer run through its stages, as generate_all_visualizations   *)
(* calls them, on position sections of up to MaxNodes rows and flow tables *)
(* of up to MaxEvents events.                                              *)
(***************************************************************************)
PipelineRows ==
  { "5,1,100.0,200.0,extra",
    "7,4,250.0,0.0,0",
    "9,9,10.0,20.0,0" }

\* flow events between the nodes 5 and 7 and the ids 98 and 99, which no
\* position row has
PipelineFlows ==
  FlowRows \cup
  { [Time |-> 2000, BundleID |-> 1, FromNode |-> 5, ToNode |-> 99,
     Action |-> "DELIVERED", NodeType |-> 1],
    [Time |-> 4000, BundleID |-> 2, FromNode |-> 98, ToNode |-> 7,
     Action |-> "FORWARDED", NodeType |-> 0] }

InitPipeline ==
  /\ script = "visualizer"
  /\ perf_file \in {Absent} \cup
                    {File(<<"NODE_POSITIONS">> \o rows) :
                       rows \in SeqsUpTo(PipelineRows, MaxNodes)}
  /\ flow_file \in Files(PipelineFlows, MaxEvents)
  /\ stats_file = Absent
  /\ Constructed

NextPipeline ==
  \/ visualizer_load_simulation_data
  \/ create_network_topology_visualization
  \/ create_message_flow_animation
  \/ create_performance_dashboard
  \/ create_node_mobility_analysis
  \/ generate_comprehensive_report

SpecPipeline == InitPipeline /\ [][NextPipeline]_vars

(***************************************************************************)
(* The sample data generator called on a loaded visualizer, on an empty    *)
(* dataset (no files) and on datasets of a few nodes and flows.            *)
(***************************************************************************)
InitGenerator ==
  /\ script = "visualizer"
  /\ perf_file \in {Absent} \cup
                    {PositionFile(places) :
                       places \in SeqsUpTo(CoveragePoints \X {0}, MaxNodes)}
  /\ flow_file \in Files(FlowRows, MaxFlows)
  /\ stats_file = Absent
  /\ Constructed

NextGenerator ==
  \/ visualizer_load_simulation_data
  \/ generate_sample_data

SpecGenerator == InitGenerator /\ [][NextGenerator]_vars

(***************************************************************************)
(* Properties.  What a line should yield is written out here as literal    *)
(* tables, independently of the conversions above.                         *)
(***************************************************************************)
VisualizerLoaded == script = "visualizer" /\ pc # "init"

FrameworkLoaded == script = "framework" /\ pc # "init"

\* the nodes that the five-field position rows of the model stand for
FullNodeRows ==
  [l \in {"5,1,100.0,200.0,extra", "7,4,250.0,0.0,0", "30,5,1.0,2.0,40"} |->
     CASE l = "5,1,100.0,200.0,extra" ->
            [id |-> 5, data |-> [x |-> 100000, y |-> 200000, type |-> 1,
                                 is_mobile |-> TRUE]]
       [] l = "7,4,250.0,0.0,0" ->
            [id |-> 7, data |-> [x |-> 250000, y |-> 0, type |-> 4,
                                 is_mobile |-> FALSE]]
       [] l = "30,5,1.0,2.0,40" ->
            [id |-> 30, data |-> [x |-> 1000, y |-> 2000, type |-> 5,
                                  is_mobile |-> FALSE]]]

\* the same with the row of exactly four fields
WellFormedNodeRows ==
  [l \in (DOMAIN FullNodeRows) \cup {"6,2,300.0,400.0"} |->
     IF l = "6,2,300.0,400.0"
     THEN [id |-> 6, data |-> [x |-> 300000, y |-> 400000, type |-> 2,
                               is_mobile |-> TRUE]]
     ELSE FullNodeRows[l]]

\* line i of ls comes after a NODE_POSITIONS marker
AfterPositionMarker(ls, i) == \E m \in 1..(i - 1) : ls[m] = "NODE_POSITIONS"

\* every row of the table rows that lies after the marker, and is the last
\* row of its id, is stored as the table says
RowsStored(ls, rows) ==
  \A i \in 1..Len(ls) :
    (/\ ls[i] \in DOMAIN rows
     /\ AfterPositionMarker(ls, i)
     /\ \A j \in (i + 1)..Len(ls) :
          ls[j] \in DOMAIN rows => rows[ls[j]].id # rows[ls[i]].id)
    => /\ rows[ls[i]].id \in DOMAIN node_positions
       /\ node_positions[rows[ls[i]].id] = rows[ls[i]].data
       /\ node_positions[rows[ls[i]].id].is_mobile = (rows[ls[i]].data.type < 4)

\* C1: with neither the combined file nor the message-flow file present, the
\* loaded dataset holds 120 nodes, 50 flow events and total_flows = 50
C1_SyntheticDataWhenNoFiles ==
  (VisualizerLoaded /\ ~perf_file.exists /\ ~flow_file.exists)
  => /\ Cardinality(DOMAIN node_positions) = 120
     /\ Len(message_flows) = 50
     /\ "total_flows" \in DOMAIN summary_data
     /\ summary_data["total_flows"] = 50

\* C2: a position row with a non-numeric field is discarded alone: every
\* five-field row after the marker is stored, whatever rows, well-formed
\* or not, come before it
C2_BadNodeRowDiscardedAlone ==
  (VisualizerLoaded /\ perf_file.exists)
  => RowsStored(perf_file.lines, FullNodeRows)

\* C4: every well-formed position row with at least 4 fields, one with
\* exactly 4 fields included, is stored with is_mobile = (type < 4)
C4_FourFieldRowStored ==
  (/\ VisualizerLoaded
   /\ perf_file.exists
   /\ \A i \in 1..Len(perf_file.lines) :
        perf_file.lines[i] \in {"NODE_POSITIONS"} \cup DOMAIN WellFormedNodeRows)
  => RowsStored(perf_file.lines, WellFormedNodeRows)

\* the raw fields of the well-formed DTN_METRICS rows of the model
MetricRows ==
  [l \in {"OurDTN,25.0,14.0,90.0,0.9", "OurDTN,10.0,5.0,0.0,0.5",
          "Epidemic,65.0,6.0,200.0,0.6", "MyProto,40.0,8.0,60.0,0.5"} |->
     CASE l = "OurDTN,25.0,14.0,90.0,0.9" ->
            [protocol |-> "OurDTN", delay |-> 25000, throughput |-> 14000,
             deliveryRatio |-> 90000, energyEfficiency |-> 900]
       [] l = "OurDTN,10.0,5.0,0.0,0.5" ->
            [protocol |-> "OurDTN", delay |-> 10000, throughput |-> 5000,
             deliveryRatio |-> 0, energyEfficiency |-> 500]
       [] l = "Epidemic,65.0,6.0,200.0,0.6" ->
            [protocol |-> "Epidemic", delay |-> 65000, throughput |-> 6000,
             deliveryRatio |-> 200000, energyEfficiency |-> 600]
       [] l = "MyProto,40.0,8.0,60.0,0.5" ->
            [protocol |-> "MyProto", delay |-> 40000, throughput |-> 8000,
             deliveryRatio |-> 60000, energyEfficiency |-> 500]]

\* the record the row-to-entity mapping asks for
MappedRecord(row) ==
  [delay |-> row.delay,
   bandwidth |-> row.throughput * 10,
   response |-> (row.delay * 8) \div 10,
   data_loss |-> 100000 - row.deliveryRatio,
   energy |-> 1000 - row.energyEfficiency,
   scalability |-> row.deliveryRatio * 100]

\* the record of the row "OurDTN,25.0,14.0,90.0,0.9"
ExampleRecord ==
  [delay |-> 25000, bandwidth |-> 140000, response |-> 20000,
   data_loss |-> 10000, energy |-> 100, scalability |-> 9000000]

\* every well-formed metrics row after the DTN_METRICS marker that is the last
\* row of its protocol is stored as the mapping says
MetricRowsStored(ls) ==
  \A i \in 1..Len(ls) :
    (/\ ls[i] \in DOMAIN MetricRows
     /\ \E m \in 1..(i - 1) : ls[m] = "DTN_METRICS"
     /\ \A j \in (i + 1)..Len(ls) :
          ls[j] \in DOMAIN MetricRows
            => MetricRows[ls[j]].protocol # MetricRows[ls[i]].protocol)
    => /\ MetricRows[ls[i]].protocol \in DOMAIN performance_data
       /\ performance_data[MetricRows[ls[i]].protocol]
            = MappedRecord(MetricRows[ls[i]])
       /\ ls[i] = "OurDTN,25.0,14.0,90.0,0.9"
            => performance_data["OurDTN"] = ExampleRecord

\* the lines of a file that holds one DTN_METRICS section and nothing else
MetricsSectionLines ==
  {"DTN_METRICS", "Protocol,Delay,Throughput,DeliveryRatio,EnergyEfficiency"}
    \cup DOMAIN MetricRows

OnlyLines(file, S) ==
  file.exists /\ \A i \in 1..Len(file.lines) : file.lines[i] \in S

\* C3: a conversion failure in one metrics row discards that row only: the
\* records of the well-formed rows of the file are in the final dataset
C3_BadMetricsRowDiscardedAlone ==
  (/\ FrameworkLoaded
   /\ OnlyLines(stats_file, MetricsSectionLines \cup {"PROPHET,bad,12.0,75.0,0.8"}))
  => MetricRowsStored(stats_file.lines)

\* C7: each well-formed DTN_METRICS row is stored under its protocol name
\* with delay, bandwidth = throughput * 10, response = delay * 0.8,
\* data_loss = 100 - deliveryRatio, energy = 1 - energyEfficiency and
\* scalability = deliveryRatio * 100
C7_MetricsRowMapping ==
  (FrameworkLoaded /\ OnlyLines(stats_file, MetricsSectionLines))
  => MetricRowsStored(stats_file.lines)

\* C7 witness: the example row has been loaded and its record is stored
C7_Witness ==
  /\ FrameworkLoaded
  /\ OnlyLines(stats_file, MetricsSectionLines)
  /\ \E i \in 2..Len(stats_file.lines) :
       /\ stats_file.lines[1] = "DTN_METRICS"
       /\ stats_file.lines[i] = "OurDTN,25.0,14.0,90.0,0.9"
  /\ "OurDTN" \in DOMAIN performance_data
  /\ performance_data["OurDTN"] = ExampleRecord

\* ls without the lines of S
WithoutLines(ls, S) == SelectSeq(ls, LAMBDA l : l \notin S)

\* C5: inside NODE_POSITIONS a line with fewer fields than the minimum, such
\* as "1,2", adds no node and changes none, and the lines after it are
\* parsed as if it were absent
C5_ShortRowSkipped ==
  (VisualizerLoaded /\ perf_file.exists)
  => /\ node_positions =
          load_node_positions(File(WithoutLines(perf_file.lines, {"1,2"})),
                              EmptyDict)
     /\ OnlyLines(perf_file, {"NODE_POSITIONS", "1,2"} \cup DOMAIN FullNodeRows)
          => /\ RowsStored(perf_file.lines, FullNodeRows)
             /\ \A n \in DOMAIN node_positions :
                  \E i \in 1..Len(perf_file.lines) :
                    /\ perf_file.lines[i] \in DOMAIN FullNodeRows
                    /\ FullNodeRows[perf_file.lines[i]].id = n

\* C5 witness: a short line inside the section, a well-formed row after it,
\* and that row's node stored
C5_Witness ==
  /\ VisualizerLoaded
  /\ perf_file.exists
  /\ \E m, k, g \in 1..Len(perf_file.lines) :
       /\ m < k /\ k < g
       /\ perf_file.lines[m] = "NODE_POSITIONS"
       /\ perf_file.lines[k] = "1,2"
       /\ perf_file.lines[g] = "5,1,100.0,200.0,extra"
  /\ 5 \in DOMAIN node_positions
  /\ node_positions[5] = FullNodeRows["5,1,100.0,200.0,extra"].data

SectionMarkers ==
  {"NODE_POSITIONS", "DTN_METRICS", "TIME_SERIES_DATA", "NODE_PERFORMANCE"}

\* the marker that most recently precedes line i of ls is marker
InSection(ls, i, marker) ==
  \E m \in 1..(i - 1) :
    /\ ls[m] = marker
    /\ \A k \in (m + 1)..(i - 1) : ls[k] \notin SectionMarkers

\* every occurrence of the line l in the file lies in the section of marker
OnlyInSection(file, l, marker) ==
  /\ file.exists
  /\ \A i \in 1..Len(file.lines) :
       file.lines[i] = l => InSection(file.lines, i, marker)

\* C6: a row is parsed only under the layout of the section whose marker
\* most recently preceded it: a row after a TIME_SERIES_DATA marker is never
\* parsed as a node position and never recorded as a ProtocolMetrics entry
C6_RowParsedUnderItsSectionOnly ==
  /\ (VisualizerLoaded
      /\ OnlyInSection(perf_file, "30,5,1.0,2.0,40", "TIME_SERIES_DATA"))
     => 30 \notin DOMAIN node_positions
  /\ (FrameworkLoaded
      /\ OnlyInSection(stats_file, "30.0,35.0,8.0,20.0,40.7", "TIME_SERIES_DATA"))
     => "30.0" \notin DOMAIN performance_data

\* C8: the scalability score of every trace is min(100, raw / 100): at most
\* 100, exactly raw / 100 below raw 10000, 0 for raw 0, 100 for raw 20000
C8_ScalabilityScoreClamped ==
  \A k \in 1..Len(radar_traces) :
    LET raw == performance_data[radar_traces[k].name].scalability
        score == radar_traces[k].r.scalability
    IN  raw >= 0
        => /\ score <= 100000
           /\ raw < 10000000 => score * 100 = raw
           /\ raw >= 10000000 => score = 100000
           /\ raw = 0 => score = 0
           /\ raw = 20000000 => score = 100000

\* C8 witness: traces for raw scalability 0 and for raw scalability 20000
C8_Witness ==
  /\ \E k \in 1..Len(radar_traces) :
       /\ performance_data[radar_traces[k].name].scalability = 0
       /\ radar_traces[k].r.scalability = 0
  /\ \E k \in 1..Len(radar_traces) :
       /\ performance_data[radar_traces[k].name].scalability = 20000000
       /\ radar_traces[k].r.scalability = 100000

\* range thresholds, in metres, around the one of the heatmap
CoverageRanges == {0, 100, CommRange, 400}

GridCells == (0..(GridSize - 1)) \X (0..(GridSize - 1))

\* C9: every cell of the coverage grid is an integer from 0 to the number of
\* nodes, and a cell computed with a smaller range threshold is at most the
\* same cell computed with a larger one
C9_CoverageMonotone ==
  (script = "visualizer" /\ pc = "dashboard")
  => \A c \in GridCells :
       LET cov == [r \in CoverageRanges |->
                     Coverage(node_positions, c[2], c[1], r)]
       IN  /\ coverage_matrix[c] \in 0..Cardinality(DOMAIN node_positions)
           /\ coverage_matrix[c] = cov[CommRange]
           /\ \A r1, r2 \in CoverageRanges : r1 <= r2 => cov[r1] <= cov[r2]

\* C9 witness: a grid with a cell that two nodes reach at range 250, one of
\* them already at range 100, and a node that lies exactly 250 from a cell
C9_Witness ==
  /\ script = "visualizer"
  /\ pc = "dashboard"
  /\ Cardinality(DOMAIN node_positions) = 2
  /\ \E c \in GridCells :
       /\ coverage_matrix[c] = 2
       /\ Coverage(node_positions, c[2], c[1], 100) = 1
  /\ coverage_matrix[<<0, 0>>] < Coverage(node_positions, 0, 0, 400)

\* the sample node i that the generator contract describes: a static node
\* on the grid, a mobile node anywhere
IsSampleNode(i, node) ==
  /\ node.type = i % 8
  /\ node.is_mobile = (i % 8 < 4)
  /\ i % 8 >= 4 => /\ node.x = (i \div 8) * 250000
                   /\ node.y = (i % 8) * 200000

\* the sample flow event i of the generator contract
IsSampleFlow(i, flow) ==
  /\ flow.Time = 2000 * i
  /\ flow.BundleID = i
  /\ flow.FromNode = i % 120
  /\ flow.ToNode = (i + 60) % 120
  /\ flow.Action = "FORWARDED"

SampleDataset ==
  /\ DOMAIN node_positions = 0..119
  /\ \A i \in 0..119 : IsSampleNode(i, node_positions[i])
  /\ Len(message_flows) = 50
  /\ \A i \in 0..49 : IsSampleFlow(i, message_flows[i + 1])

\* C11: the generator, run on an empty dataset, produces the nodes 0..119,
\* node i of type i % 8, mobile iff i % 8 < 4, the types 4-7 at
\* x = (i // 8) * 250, y = (i % 8) * 200, and exactly 50 flow events, event i
\* with time 2 i, BundleID i, FromNode i % 120, ToNode (i + 60) % 120 and
\* Action FORWARDED
C11_GeneratorOutput ==
  [][(/\ pc = "loaded"
      /\ pc' = "generated"
      /\ node_positions = EmptyDict
      /\ message_flows = << >>) => SampleDataset']_vars

\* C11 witness: the generator has run after a load that found no file
C11_Witness ==
  /\ pc = "generated"
  /\ ~perf_file.exists
  /\ ~flow_file.exists
  /\ DOMAIN node_positions = 0..119
  /\ node_positions[119] =
       [x |-> 3500000, y |-> 1400000, type |-> 7, is_mobile |-> FALSE]
  /\ node_positions[0].is_mobile
  /\ Len(message_flows) = 50
  /\ message_flows[50].ToNode = 109

\* the protocol name of each well-formed DTN_METRICS row of the model
MetricRowNames ==
  [l \in (DOMAIN MetricRows) \cup {"ProtocolX,40.0,8.0,60.0,0.5"} |->
     IF l \in DOMAIN MetricRows THEN MetricRows[l].protocol ELSE "ProtocolX"]

\* C12: after a DTN_METRICS section has been parsed, the protocol-metrics
\* collection has a record for exactly the protocol names of the well-formed
\* rows of the section, names outside the known set included
C12_OneRecordPerProtocolName ==
  (/\ FrameworkLoaded
   /\ stats_file.exists
   /\ Len(stats_file.lines) >= 2
   /\ stats_file.lines[1] = "DTN_METRICS"
   /\ \A i \in 2..Len(stats_file.lines) :
        stats_file.lines[i] \in DOMAIN MetricRowNames)
  => DOMAIN performance_data
       = {MetricRowNames[stats_file.lines[i]] : i \in 2..Len(stats_file.lines)}

\* the key and the value of each summary line of the model
SummaryValues ==
  [l \in {"AverageDelay,45.2", "AverageDelay,30.5", "AverageThroughput,125.8",
          "AverageThroughput,99.0", "TotalFlows,50", "TotalFlows,7"} |->
     CASE l = "AverageDelay,45.2" -> [key |-> "avg_delay", val |-> 45200]
       [] l = "AverageDelay,30.5" -> [key |-> "avg_delay", val |-> 30500]
       [] l = "AverageThroughput,125.8" -> [key |-> "avg_throughput", val |-> 125800]
       [] l = "AverageThroughput,99.0" -> [key |-> "avg_throughput", val |-> 99000]
       [] l = "TotalFlows,50" -> [key |-> "total_flows", val |-> 50]
       [] l = "TotalFlows,7" -> [key |-> "total_flows", val |-> 7]]

\* line i of ls is a line of the summary key
IsKeyLine(ls, i, key) ==
  ls[i] \in DOMAIN SummaryValues /\ SummaryValues[ls[i]].key = key

\* line i of ls is the last line of its summary key
LastOfKey(ls, i) ==
  /\ ls[i] \in DOMAIN SummaryValues
  /\ \A j \in (i + 1)..Len(ls) : ~IsKeyLine(ls, j, SummaryValues[ls[i]].key)

\* C13: when a summary key occurs on several key,value lines, the stored
\* value is the one of the last such line, for each of the three keys on its
\* own; a key on no line is not stored
C13_LastSummaryLineWins ==
  (VisualizerLoaded /\ perf_file.exists)
  => /\ \A i \in 1..Len(perf_file.lines) :
          LastOfKey(perf_file.lines, i)
          => /\ SummaryValues[perf_file.lines[i]].key \in DOMAIN summary_data
             /\ summary_data[SummaryValues[perf_file.lines[i]].key]
                  = SummaryValues[perf_file.lines[i]].val
     /\ \A key \in DOMAIN summary_data :
          \E i \in 1..Len(perf_file.lines) : IsKeyLine(perf_file.lines, i, key)

\* C13 witness: AverageDelay on two lines with different values, another key
\* between them, and the later value stored
C13_Witness ==
  /\ VisualizerLoaded
  /\ perf_file = File(<<"AverageDelay,45.2", "TotalFlows,7", "AverageDelay,30.5">>)
  /\ summary_data["avg_delay"] = 30500
  /\ summary_data["total_flows"] = 7

\* the node id of each position row of the staged runs
PipelineRowIds ==
  [l \in {"5,1,100.0,200.0,extra", "7,4,250.0,0.0,0", "9,9,10.0,20.0,0"} |->
     CASE l = "5,1,100.0,200.0,extra" -> 5
       [] l = "7,4,250.0,0.0,0" -> 7
       [] l = "9,9,10.0,20.0,0" -> 9]

\* the ids of the position rows of the file
FileNodeIds(file) ==
  {PipelineRowIds[file.lines[i]] :
     i \in {k \in 1..Len(file.lines) : file.lines[k] \in DOMAIN PipelineRowIds}}

\* the sum of the counts of a tally
RECURSIVE SumOf(_)
SumOf(d) ==
  IF DOMAIN d = {} THEN 0
  ELSE d[CHOOSE k \in DOMAIN d : TRUE]
       + SumOf([x \in (DOMAIN d) \ {CHOOSE k \in DOMAIN d : TRUE} |-> d[x]])

\* the positions in the flow table of the events with the given property
EventsWhere(file, P(_)) == {i \in 1..Len(file.lines) : P(file.lines[i])}

\* the run has passed the stage that leaves pc at the first of these
PastAnimation == pc \in {"animation", "dashboard", "mobility", "report"}

PastMobility == pc \in {"mobility", "report"}

C19_NodeTypesInRange ==
  (script = "visualizer" /\ pc # "init")
  => /\ \A n \in DOMAIN node_positions : node_positions[n].type \in 0..7
     /\ 9 \notin DOMAIN node_positions
     /\ raised = "none"

\* the figures of the report agree with each other and with the dataset
ReportConsistent ==
  /\ report.total_nodes = Cardinality(DOMAIN node_positions)
  /\ report.mobile_nodes + report.static_nodes = report.total_nodes
  /\ SumOf(report.node_type_counts) = report.total_nodes
  /\ report.total_events = Len(message_flows)
  /\ SumOf(report.actions) = report.total_events

\* C20: for every loaded dataset the report figures are consistent: mobile +
\* static = total nodes, the per-type counts sum to the total, the
\* per-action counts sum to the number of flow events; and computing them
\* leaves the node, flow and summary collections as they were
C20_ReportAggregatesConsistent ==
  [][(pc = "mobility" /\ pc' = "report")
     => /\ ReportConsistent'
        /\ node_positions' = node_positions
        /\ message_flows' = message_flows
        /\ summary_data' = summary_data]_vars

\* C20 witness: the report of a dataset with a mobile and a static node of
\* different types and two events of different actions
C20_Witness ==
  /\ pc = "report"
  /\ report.total_nodes = 2
  /\ report.mobile_nodes = 1
  /\ report.static_nodes = 1
  /\ report.node_type_counts = [Civilian |-> 1, Tower |-> 1]
  /\ report.total_events = 2
  /\ report.actions = [FORWARDED |-> 1, DELIVERED |-> 1]

\* the scores the normalization rules give for the records of the model, in
\* thousandths: the four default records and the records of the rows
\* "OurDTN,25.0,14.0,90.0,0.9", "OurDTN,10.0,5.0,0.0,0.5" and
\* "Epidemic,65.0,6.0,200.0,0.6"
ExpectedScores ==
  { [in |-> [delay |-> 25000, bandwidth |-> 14000, response |-> 20000,
             data_loss |-> 15000, energy |-> 100],
     out |-> [delay |-> 98750, bandwidth |-> 14000, response |-> 96000,
              data_loss |-> 25000, energy |-> 0]],
    [in |-> [delay |-> 65000, bandwidth |-> 6000, response |-> 52000,
             data_loss |-> 40000, energy |-> 400],
     out |-> [delay |-> 96750, bandwidth |-> 6000, response |-> 89600,
              data_loss |-> -100000, energy |-> -300000]],
    [in |-> [delay |-> 42000, bandwidth |-> 12000, response |-> 34000,
             data_loss |-> 25000, energy |-> 200],
     out |-> [delay |-> 97900, bandwidth |-> 12000, response |-> 93200,
              data_loss |-> -25000, energy |-> -100000]],
    [in |-> [delay |-> 51000, bandwidth |-> 10000, response |-> 41000,
             data_loss |-> 30000, energy |-> 250],
     out |-> [delay |-> 97450, bandwidth |-> 10000, response |-> 91800,
              data_loss |-> -50000, energy |-> -150000]],
    [in |-> [delay |-> 25000, bandwidth |-> 140000, response |-> 20000,
             data_loss |-> 10000, energy |-> 100],
     out |-> [delay |-> 98750, bandwidth |-> 140000, response |-> 96000,
              data_loss |-> 50000, energy |-> 0]],
    [in |-> [delay |-> 10000, bandwidth |-> 50000, response |-> 8000,
             data_loss |-> 100000, energy |-> 500],
     out |-> [delay |-> 99500, bandwidth |-> 50000, response |-> 98400,
              data_loss |-> -400000, energy |-> -400000]],
    [in |-> [delay |-> 65000, bandwidth |-> 60000, response |-> 52000,
             data_loss |-> -100000, energy |-> 400],
     out |-> [delay |-> 96750, bandwidth |-> 60000, response |-> 89600,
              data_loss |-> 600000, energy |-> -300000]] }

\* the record without its scalability
FiveMetrics(r) ==
  [delay |-> r.delay, bandwidth |-> r.bandwidth, response |-> r.response,
   data_loss |-> r.data_loss, energy |-> r.energy]

\* C16: the scores of every trace are 100 - delay / 20, bandwidth,
\* 100 - response / 5, 100 - dataLoss * 5 and 100 - energy * 1000 of the
\* stored record, with no clamping: dataLoss 30 gives -50
C16_ScoresUnclamped ==
  \A k \in 1..Len(radar_traces) :
    /\ radar_traces[k].r.delay * 20
         = 2000000 - performance_data[radar_traces[k].name].delay
    /\ radar_traces[k].r.bandwidth
         = performance_data[radar_traces[k].name].bandwidth
    /\ radar_traces[k].r.response * 5
         = 500000 - performance_data[radar_traces[k].name].response
    /\ radar_traces[k].r.data_loss
         = 100000 - 5 * performance_data[radar_traces[k].name].data_loss
    /\ radar_traces[k].r.energy
         = 100000 - 1000 * performance_data[radar_traces[k].name].energy
    /\ \E e \in ExpectedScores :
         /\ e.in = FiveMetrics(performance_data[radar_traces[k].name])
         /\ e.out = FiveMetrics(radar_traces[k].r)
    /\ performance_data[radar_traces[k].name].data_loss = 30000
         => radar_traces[k].r.data_loss = -50000

\* C16 witness: the four traces of a dataset with a record of dataLoss 30,
\* scored -50, and a record of energy 0.4, scored -300
C16_Witness ==
  /\ pc = "radar"
  /\ Len(radar_traces) = 4
  /\ \E k \in 1..Len(radar_traces) :
       /\ performance_data[radar_traces[k].name].data_loss = 30000
       /\ radar_traces[k].r.data_loss = -50000
  /\ \E k \in 1..Len(radar_traces) :
       /\ performance_data[radar_traces[k].name].energy = 400
       /\ radar_traces[k].r.energy = -300000

\* the nodes less than 250 m from the centre ((i + 0.5) * 75, (j + 0.5) * 75)
\* of cell (row j, column i); lengths doubled to stay in the integers
NearCellCentre(i, j) ==
  {n \in DOMAIN node_positions :
     (150 * i + 75 - 2 * (node_positions[n].x \div 1000))
       * (150 * i + 75 - 2 * (node_positions[n].x \div 1000))
     + (150 * j + 75 - 2 * (node_positions[n].y \div 1000))
         * (150 * j + 75 - 2 * (node_positions[n].y \div 1000))
     < 500 * 500}

\* the nodes less than 250 m from the point (1500 i / 19, 1500 j / 19);
\* lengths multiplied by 19
NearSamplePoint(i, j) ==
  {n \in DOMAIN node_positions :
     (1500 * i - 19 * (node_positions[n].x \div 1000))
       * (1500 * i - 19 * (node_positions[n].x \div 1000))
     + (1500 * j - 19 * (node_positions[n].y \div 1000))
         * (1500 * j - 19 * (node_positions[n].y \div 1000))
     < 4750 * 4750}

\* C17 as claimed: each cell (row j, column i) of the 20 x 20 grid counts the
\* nodes strictly less than 250 from the cell centre x = (i + 0.5) * 75,
\* y = (j + 0.5) * 75
C17_CoverageAtCellCentres ==
  (script = "visualizer" /\ pc = "dashboard")
  => \A c \in GridCells :
       coverage_matrix[c] = Cardinality(NearCellCentre(c[2], c[1]))

\* C17 as amended: each cell (row j, column i) counts the nodes strictly
\* less than 250 from the sampled point x = 1500 i / 19, y = 1500 j / 19; a
\* node exactly 250 away is not counted, so cell (0, 0) counts the nodes at
\* the origin alone, and a lone node at the origin is counted in exactly
\* the cells with i * i + j * j <= 10
C17_CoverageAtSamplePoints ==
  (script = "visualizer" /\ pc = "dashboard")
  => /\ \A c \in GridCells :
          coverage_matrix[c] = Cardinality(NearSamplePoint(c[2], c[1]))
     /\ coverage_matrix[<<0, 0>>] =
          Cardinality({n \in DOMAIN node_positions :
                         node_positions[n].x = 0 /\ node_positions[n].y = 0})
     /\ (\A n \in DOMAIN node_positions :
           node_positions[n].x = 0 /\ node_positions[n].y = 0)
        => \A c \in GridCells :
             coverage_matrix[c] =
               (IF c[1] * c[1] + c[2] * c[2] <= 10
                THEN Cardinality(DOMAIN node_positions) ELSE 0)

\* C17 witness: a grid of a node at the origin and a node at (250, 0): the
\* second is exactly 250 from the point of cell (0, 0) and is not counted
\* there, it is counted in the next column, and column 3 of row 0 counts
\* the first
C17_Witness ==
  /\ script = "visualizer"
  /\ pc = "dashboard"
  /\ \E n, m \in DOMAIN node_positions :
       /\ node_positions[n].x = 0 /\ node_positions[n].y = 0
       /\ node_positions[m].x = 250000 /\ node_positions[m].y = 0
  /\ coverage_matrix[<<0, 0>>] = 1
  /\ coverage_matrix[<<0, 1>>] = 2
  /\ coverage_matrix[<<0, 3>>] = 2

\* C18: inside a section a line is skipped as a header exactly when its
\* first field is the header word: the header line of DTN_METRICS yields no
\* record, and a row of a protocol whose name only begins with the header
\* word, "ProtocolX", is parsed into a record
C18_HeaderIsFirstFieldEqualToWord ==
  (/\ FrameworkLoaded
   /\ OnlyLines(stats_file,
                MetricsSectionLines \cup {"ProtocolX,40.0,8.0,60.0,0.5"})
   /\ \E m, i \in 1..Len(stats_file.lines) :
        /\ m < i
        /\ stats_file.lines[m] = "DTN_METRICS"
        /\ stats_file.lines[i] = "ProtocolX,40.0,8.0,60.0,0.5")
  => /\ "Protocol" \notin DOMAIN performance_data
     /\ "ProtocolX" \in DOMAIN performance_data
     /\ performance_data["ProtocolX"] =
          [delay |-> 40000, bandwidth |-> 80000, response |-> 32000,
           data_loss |-> 40000, energy |-> 500, scalability |-> 6000000]

\* C21: every node the generator produces, mobile or static, lies inside the
\* arena: 0 <= x <= 1500 and 0 <= y <= 1500 for all ids 0..119
C21_SampleNodesInsideArena ==
  (script = "visualizer" /\ pc = "generated")
  => \A i \in 0..119 :
       /\ i \in DOMAIN node_positions
       /\ 0 <= node_positions[i].x /\ node_positions[i].x <= 1500000
       /\ 0 <= node_positions[i].y /\ node_positions[i].y <= 1500000

\* the lines of a file that holds time-series rows and no metrics section
SeriesSectionLines ==
  {"TIME_SERIES_DATA", "Time,Delay,Throughput,PacketLoss,ActiveNodes",
   "30.0,35.0,8.0,20.0,40.7"}

\* the sample of the row "30.0,35.0,8.0,20.0,40.7"
ExampleSample ==
  [time |-> 30000, delay |-> 35000, throughput |-> 8000,
   packet_loss |-> 20000, active_nodes |-> 40000]

\* the positions of the sample rows that follow the TIME_SERIES_DATA marker
SampleRowsOf(ls) ==
  {i \in 1..Len(ls) :
     /\ ls[i] = "30.0,35.0,8.0,20.0,40.7"
     /\ \E m \in 1..(i - 1) : ls[m] = "TIME_SERIES_DATA"}

\* C22: when the metrics file has well-formed TIME_SERIES_DATA rows and no
\* well-formed DTN_METRICS row, the final time series is the samples parsed
\* from the file, not generated default samples, and the active_nodes of
\* every sample is an integer
C22_ParsedTimeSeriesKept ==
  (/\ FrameworkLoaded
   /\ OnlyLines(stats_file, SeriesSectionLines)
   /\ SampleRowsOf(stats_file.lines) # {})
  => /\ Len(time_series_data) = Cardinality(SampleRowsOf(stats_file.lines))
     /\ \A k \in 1..Len(time_series_data) :
          /\ time_series_data[k] = ExampleSample
          /\ time_series_data[k].active_nodes % 1000 = 0

\* C10: after a metrics file with at least one well-formed DTN_METRICS row has
\* been loaded, the normalization completes without raising and has scores
\* for every protocol of the dataset
C10_NormalizationCompletes ==
  (/\ script = "framework"
   /\ pc = "radar"
   /\ OnlyLines(stats_file, MetricsSectionLines)
   /\ \E m, i \in 1..Len(stats_file.lines) :
        /\ m < i
        /\ stats_file.lines[m] = "DTN_METRICS"
        /\ stats_file.lines[i] \in DOMAIN MetricRows)
  => /\ raised = "none"
     /\ {radar_traces[k].name : k \in 1..Len(radar_traces)}
          = DOMAIN performance_data

====
